---- MODULE Spec2Model ----
(***************************************************************************)
(* Model of src/app.py (audio2text-app): the chunk planning of             *)
(* segment_audio, the per-chunk transcription loop of transcribe_audio,    *)
(* the transcription/diarization run of main with its temporary files and  *)
(* session state, the speaker assignment and paragraph merge of            *)
(* assign_speakers_to_transcription, and the speaker rename of main.       *)
(*                                                                         *)
(* Time values are Python floats.  They are modelled as binary floating    *)
(* point numbers with Precision significant bits (the code's doubles have  *)
(* 53), counted in ticks of 2^-TickBits seconds; every arithmetic result   *)
(* is rounded to the nearest representable value, ties to even.            *)
(* Text values are sequences of one-character strings.                     *)
(***************************************************************************)
EXTENDS Integers, Sequences, FiniteSets, TLC

\* ------------------------------------------------------------------ bounds
Precision == 7
TickBits == 10
MaxTotalSeconds == 2400
MaxMergeSegs == 3
MaxAssignSegs == 2
MaxIntervals == 2
MaxRenameSegs == 3

\* ------------------------------------------------------- program constants
max_duration_seconds == 600
max_file_size == 100 * 1024 * 1024

\* ------------------------------------------------------------ float model
RECURSIVE Pow2(_)
Pow2(n) ==
    IF n <= 0 THEN 1 ELSE 2 * Pow2(n - 1)

RECURSIVE FloorLog2(_)
FloorLog2(v) ==
    IF v < 2 THEN 0 ELSE 1 + FloorLog2(v \div 2)

TicksPerSecond == Pow2(TickBits)

max_duration == max_duration_seconds * TicksPerSecond

MaxTotal == MaxTotalSeconds * TicksPerSecond

\* The spacing of the representable values around v (v in ticks, v >= 0).
Ulp(v) ==
    IF v < Pow2(Precision) THEN 1 ELSE Pow2(FloorLog2(v) - Precision + 1)

\* a / b rounded to the nearest integer, ties to the even one (a >= 0, b > 0).
RoundHalfEven(a, b) ==
    LET q == a \div b
        r == a % b
    IN  IF 2 * r < b THEN q
        ELSE IF 2 * r > b THEN q + 1
        ELSE IF q % 2 = 0 THEN q ELSE q + 1

\* The float nearest to the rational num / den (in ticks).
RoundRat(num, den) ==
    LET u == Ulp(num \div den)
    IN  RoundHalfEven(num, den * u) * u

Round(v) == RoundRat(v, 1)

FAdd(a, b) == Round(a + b)

FSub(a, b) == Round(a - b)

FMul(a, b) == Round(a * b)

FDiv(a, n) == RoundRat(a, n)

Min(a, b) == IF a <= b THEN a ELSE b

\* The representable durations up to MaxTotal.
Floats ==
    {v \in {m * Pow2(e) : m \in 0..(Pow2(Precision) - 1), e \in 0..FloorLog2(MaxTotal)} :
        v <= MaxTotal}

\* int(np.ceil(total / max)): the ceiling of the ROUNDED quotient.  With
\* total = q * max + r, 0 < r < max, q >= 1, the quotient lies in the binade
\* of q and rounds down to the integer q exactly when r / max is at most half
\* a unit in the last place of q, that is r * 2^(Precision - FloorLog2(q)) <= max
\* (q has an even significand, so the tie goes to q).  A positive quotient
\* below 1 rounds to a positive float of at most 1.
CeilOfQuotient(total, max) ==
    LET q == total \div max
        r == total % max
    IN  IF r = 0 THEN q
        ELSE IF q = 0 THEN 1
        ELSE IF r * Pow2(Precision - FloorLog2(q)) <= max THEN q
        ELSE q + 1

\* ------------------------------------------------------------- text model
Whitespace == {" ", "\n"}

RECURSIVE LStrip(_)
LStrip(s) ==
    IF s = <<>> THEN <<>>
    ELSE IF Head(s) \in Whitespace THEN LStrip(Tail(s))
    ELSE s

RECURSIVE RStrip(_)
RStrip(s) ==
    IF s = <<>> THEN <<>>
    ELSE IF s[Len(s)] \in Whitespace THEN RStrip(SubSeq(s, 1, Len(s) - 1))
    ELSE s

\* str.strip()
Strip(s) == RStrip(LStrip(s))

IsPrefix(p, s) ==
    /\ Len(p) <= Len(s)
    /\ SubSeq(s, 1, Len(p)) = p

\* str.replace(old, new) for a non-empty old: leftmost, non-overlapping.
RECURSIVE Replace(_, _, _)
Replace(s, old, new) ==
    IF s = <<>> THEN <<>>
    ELSE IF IsPrefix(old, s)
         THEN new \o Replace(SubSeq(s, Len(old) + 1, Len(s)), old, new)
         ELSE <<Head(s)>> \o Replace(Tail(s), old, new)

\* sep.join(parts)
RECURSIVE Join(_, _)
Join(parts, sep) ==
    IF parts = <<>> THEN <<>>
    ELSE IF Len(parts) = 1 THEN parts[1]
    ELSE parts[1] \o sep \o Join(Tail(parts), sep)

RECURSIVE Occurs(_, _)
Occurs(pat, s) ==
    IF Len(s) < Len(pat) THEN FALSE
    ELSE IsPrefix(pat, s) \/ Occurs(pat, Tail(s))

\* ------------------------------------------------- labels and conversions
\* Python's None (assigned_speaker, current_speaker before the first segment).
None == <<"None">>

\* A transcript segment that has no "speaker" key yet.
NoKey == <<"NoKey">>

Unknown == <<"Unknown">>

\* The diarization labels, in sorted() order.
AllLabels == << <<"A">>, <<"B">> >>

Labels == {AllLabels[i] : i \in 1..Len(AllLabels)}

\* f"{x:.2f}": x (ticks) as a decimal with two places, held as hundredths.
Format2f(x) == RoundHalfEven(100 * x, TicksPerSecond)

\* float("s.cc"): the float nearest to cs hundredths of a second, in ticks.
ParseFloat(cs) == RoundRat(cs * TicksPerSecond, 100)

\* ------------------------------------- assign_speakers_to_transcription
\* Twice the midpoint (seg["start"] + seg["end"]) / 2: the sum is rounded, the
\* halving of a binary float is exact, so comparisons are made on the doubles.
Midpoint2(seg) == FAdd(seg.start, seg.end)

Contains(d, mid2) ==
    /\ 2 * ParseFloat(d.start_sec) <= mid2
    /\ mid2 <= 2 * ParseFloat(d.end_sec)

\* The inner loop over diarization_results with its break.
RECURSIVE FirstMatch(_, _)
FirstMatch(mid2, results) ==
    IF results = <<>> THEN None
    ELSE IF Contains(Head(results), mid2) THEN Head(results).speaker
    ELSE FirstMatch(mid2, Tail(results))

RECURSIVE LastMatch(_, _)
LastMatch(mid2, results) ==
    IF results = <<>> THEN None
    ELSE IF Contains(results[Len(results)], mid2) THEN results[Len(results)].speaker
    ELSE LastMatch(mid2, SubSeq(results, 1, Len(results) - 1))

\* Mutant of AssignedSpeaker: the loop without its break (last match wins).
AssignedSpeakerNoBreak(seg, results) ==
    LET assigned_speaker == LastMatch(Midpoint2(seg), results)
    IN  IF assigned_speaker # None /\ assigned_speaker # <<>>
        THEN assigned_speaker ELSE Unknown

\* seg["speaker"] = assigned_speaker if assigned_speaker else "Unknown"
AssignedSpeaker(seg, results) ==
    LET assigned_speaker == FirstMatch(Midpoint2(seg), results)
    IN  IF assigned_speaker # None /\ assigned_speaker # <<>>
        THEN assigned_speaker ELSE Unknown

\* The first loop: every segment gets its "speaker" key, in place.
AssignSpeakers(segs, results) ==
    [i \in 1..Len(segs) |-> [segs[i] EXCEPT !.speaker = AssignedSpeaker(segs[i], results)]]

\* f"{current_speaker}: {current_text.strip()}"
Line(speaker, text) == speaker \o <<":", " ">> \o Strip(text)

\* Mutant of MergeStep: a speaker change starts a new text but the finished
\* paragraph is not appended.
MergeStepNoFlush(st, seg) ==
    LET speaker == IF seg.speaker = NoKey THEN Unknown ELSE seg.speaker
        text == Strip(seg.text)
    IN  IF st.current_speaker # speaker
        THEN [merged_lines |-> st.merged_lines,
              current_speaker |-> speaker,
              current_text |-> text \o <<" ">>]
        ELSE [st EXCEPT !.current_text = st.current_text \o text \o <<" ">>]

\* One iteration of the second loop.
MergeStep(st, seg) ==
    LET speaker == IF seg.speaker = NoKey THEN Unknown ELSE seg.speaker
        text == Strip(seg.text)
    IN  IF st.current_speaker # speaker
        THEN [merged_lines |->
                  IF st.current_speaker # None
                  THEN Append(st.merged_lines, Line(st.current_speaker, st.current_text))
                  ELSE st.merged_lines,
              current_speaker |-> speaker,
              current_text |-> text \o <<" ">>]
        ELSE [st EXCEPT !.current_text = st.current_text \o text \o <<" ">>]

RECURSIVE MergeLoop(_, _)
MergeLoop(st, segs) ==
    IF segs = <<>> THEN st
    ELSE MergeLoop(MergeStep(st, Head(segs)), Tail(segs))

\* The second loop, the final append and the join.
MergeParagraphs(segs) ==
    LET st == MergeLoop([merged_lines |-> <<>>, current_speaker |-> None,
                         current_text |-> <<>>], segs)
        merged_lines == IF st.current_text # <<>>
                        THEN Append(st.merged_lines, Line(st.current_speaker, st.current_text))
                        ELSE st.merged_lines
    IN  Join(merged_lines, <<"\n", "\n">>)

\* The returned text.
assign_speakers_to_transcription(segs, results) ==
    IF segs = <<>> THEN <<>>
    ELSE MergeParagraphs(AssignSpeakers(segs, results))

\* ------------------------------------------------------- speaker rename
\* speaker_labels = sorted({d["Speaker"] for d in diarization_results})
SpeakerLabels(results) ==
    SelectSeq(AllLabels, LAMBDA l : \E i \in 1..Len(results) : results[i].speaker = l)

\* str.replace(old, new, 1): the first occurrence only.
RECURSIVE ReplaceFirst(_, _, _)
ReplaceFirst(s, old, new) ==
    IF s = <<>> THEN <<>>
    ELSE IF IsPrefix(old, s)
         THEN new \o SubSeq(s, Len(old) + 1, Len(s))
         ELSE <<Head(s)>> \o ReplaceFirst(Tail(s), old, new)

\* Mutant of RenameLoop: only the first occurrence of each label is replaced.
RECURSIVE RenameLoopFirstOnly(_, _, _)
RenameLoopFirstOnly(text, labels, map) ==
    IF labels = <<>> THEN text
    ELSE RenameLoopFirstOnly(
             ReplaceFirst(text, Head(labels) \o <<":">>, map[Head(labels)] \o <<":">>),
             Tail(labels), map)

\* The loop of single replace calls, each on the text the previous one left.
RECURSIVE RenameLoop(_, _, _)
RenameLoop(text, labels, map) ==
    IF labels = <<>> THEN text
    ELSE RenameLoop(Replace(text, Head(labels) \o <<":">>, map[Head(labels)] \o <<":">>),
                    Tail(labels), map)

\* ------------------------------------------------------------------ state
VARIABLES
    pc,                     \* where the script run of main stands
    disk,                   \* the temporary files that exist
    total_duration,         \* segment_audio: get_audio_duration(file_path)
    file_size,              \* segment_audio: os.path.getsize(file_path)
    num_segments,           \* segment_audio
    segment_duration,       \* segment_audio
    segments,               \* the (path, chunk_start) list segment_audio builds and returns
    ffmpeg_cmds,            \* the slices asked of ffmpeg: path, -ss, -t
    calls,                  \* model.transcribe invocations: path and result, in order
    full_text,              \* transcribe_audio
    local_segments,         \* transcribe_audio: transcription_segments
    returned,               \* what transcribe_audio returned
    events,                 \* transcriptions completed and files removed, in order
    raised,                 \* the step that raised, "" when none did
    diarization,            \* main: the pipeline's output
    diar_local,             \* main: the local list diarization_results
    transcription_done,     \* st.session_state
    transcription_text,
    transcription_segments,
    diarization_results,
    final_transcript,
    speaker_map,
    merged                  \* the text a direct call of assign_speakers_to_transcription returned

vars ==
    <<pc, disk, total_duration, file_size, num_segments, segment_duration, segments,
      ffmpeg_cmds, calls, full_text, local_segments, returned, events, raised,
      diarization, diar_local, transcription_done, transcription_text,
      transcription_segments, diarization_results, final_transcript, speaker_map, merged>>

chunk_vars ==
    <<total_duration, file_size, num_segments, segment_duration, segments, ffmpeg_cmds>>

transcribe_vars == <<calls, full_text, local_segments, returned, events>>

diar_vars == <<diarization, diar_local>>

session_vars ==
    <<transcription_done, transcription_text, transcription_segments,
      diarization_results, final_transcript, speaker_map>>

Unset == 0 - 1

\* tempfile.NamedTemporaryFile(delete=False) names.
UploadPath == <<"upload", 0>>

WavPath == <<"wav", 0>>

ChunkPath(i) == <<"chunk", i>>

FileSizes == {0, max_file_size, max_file_size + 1}

\* What model.transcribe may return for one file: chunk-relative segments.
WhisperOutputs ==
    { [text |-> <<>>, segments |-> <<>>],
      [text |-> <<" ", "a">>,
       segments |-> <<[start |-> 0, end |-> 3 * TicksPerSecond,
                       text |-> <<" ", "a">>, speaker |-> NoKey]>>] }

\* What the diarization pipeline may yield: (start, end, speaker) in ticks.
DiarOutputs ==
    { <<>>,
      <<[start |-> 0, end |-> TicksPerSecond + 7, speaker |-> <<"A">>]>>,
      <<[start |-> 0, end |-> TicksPerSecond + 7, speaker |-> <<"A">>],
        [start |-> TicksPerSecond + 7, end |-> 4 * TicksPerSecond, speaker |-> <<"B">>]>> }

\* The state of main's locals before a run.
NoRun ==
    /\ disk = {}
    /\ total_duration = Unset
    /\ file_size = Unset
    /\ num_segments = Unset
    /\ segment_duration = Unset
    /\ segments = <<>>
    /\ ffmpeg_cmds = <<>>
    /\ calls = <<>>
    /\ full_text = <<>>
    /\ local_segments = <<>>
    /\ returned = [text |-> <<>>, segments |-> <<>>]
    /\ events = <<>>
    /\ raised = ""
    /\ diarization = <<>>
    /\ diar_local = <<>>
    /\ merged = <<>>

\* Lines 231-237: the session state of a first script run.
FreshSession ==
    /\ transcription_done = FALSE
    /\ transcription_text = <<>>
    /\ transcription_segments = <<>>
    /\ diarization_results = <<>>
    /\ final_transcript = <<>>
    /\ speaker_map = <<>>

\* The session state an earlier, completed run without diarization left.
EarlierSession ==
    /\ transcription_done = TRUE
    /\ transcription_text = <<"a">>
    /\ transcription_segments = <<>>
    /\ diarization_results = <<>>
    /\ final_transcript = <<"a">>
    /\ speaker_map = <<>>

Init ==
    /\ pc = "idle"
    /\ NoRun
    /\ FreshSession \/ EarlierSession

\* ---------------------------------------------------------- segment_audio
\* Mutant of WholeFile: the bounds taken as exclusive.
WholeFileExclusive(duration, size) ==
    duration < max_duration /\ size < max_file_size

\* Line 87: the file is handed on as it is.
WholeFile(duration, size) ==
    duration <= max_duration /\ size <= max_file_size

\* Mutant of ChunkStart: the loop index taken from 1.
ChunkStartFromOne(i, d) == FMul(i + 1, d)

\* Line 95: chunk_start = i * segment_duration
ChunkStart(i, d) == FMul(i, d)

\* Line 96: current_duration = min(segment_duration, total_duration - chunk_start)
CurrentDuration(total, d, chunk_start) == Min(d, FSub(total, chunk_start))

\* ------------------------------------------------------------------- main
\* Lines 251-265: the button, the cleared session state, the copy of the upload.
ClickTranscribe ==
    /\ pc = "idle"
    /\ transcription_done' = FALSE
    /\ transcription_text' = <<>>
    /\ transcription_segments' = <<>>
    /\ diarization_results' = <<>>
    /\ final_transcript' = <<>>
    /\ speaker_map' = <<>>
    /\ disk' = disk \cup {UploadPath}
    /\ pc' = "load_model"
    /\ UNCHANGED <<chunk_vars, transcribe_vars, diar_vars, raised, merged>>

\* Line 271.
LoadModel ==
    /\ pc = "load_model"
    /\ pc' = "segment"
    /\ UNCHANGED <<disk, chunk_vars, transcribe_vars, diar_vars, session_vars, raised, merged>>

\* Line 271 raising: the exception leaves main.
LoadModelRaises ==
    /\ pc = "load_model"
    /\ pc' = "aborted"
    /\ raised' = "load_model"
    /\ UNCHANGED <<disk, chunk_vars, transcribe_vars, diar_vars, session_vars, merged>>

\* Lines 85-91: the probe, the early return, the plan.
SegmentAudioBegin ==
    /\ pc = "segment"
    /\ \E duration \in Floats, size \in FileSizes :
        /\ total_duration' = duration
        /\ file_size' = size
        /\ IF WholeFile(duration, size)
           THEN /\ segments' = <<[path |-> UploadPath, chunk_start |-> 0]>>
                /\ pc' = "transcribe"
                /\ UNCHANGED <<num_segments, segment_duration, raised>>
           ELSE LET n == CeilOfQuotient(duration, max_duration)
                IN  /\ num_segments' = n
                    /\ IF n = 0
                       THEN \* total_duration / num_segments: ZeroDivisionError
                            /\ pc' = "aborted"
                            /\ raised' = "segment_duration"
                            /\ UNCHANGED <<segment_duration, segments>>
                       ELSE /\ segment_duration' = FDiv(duration, n)
                            /\ segments' = <<>>
                            /\ pc' = "slice"
                            /\ UNCHANGED raised
    /\ UNCHANGED <<disk, ffmpeg_cmds, transcribe_vars, diar_vars, session_vars, merged>>

\* Lines 76-82 raising: ffprobe printed no number.
ProbeRaises ==
    /\ pc = "segment"
    /\ pc' = "aborted"
    /\ raised' = "probe"
    /\ UNCHANGED <<disk, chunk_vars, transcribe_vars, diar_vars, session_vars, merged>>

\* Lines 94-106: one iteration of the slicing loop; the last one returns.
SliceChunk ==
    /\ pc = "slice"
    /\ LET i == Len(segments)
           chunk_start == ChunkStart(i, segment_duration)
           current_duration == CurrentDuration(total_duration, segment_duration, chunk_start)
           segment_path == ChunkPath(i + 1)
       IN  /\ disk' = disk \cup {segment_path}
           /\ ffmpeg_cmds' = Append(ffmpeg_cmds,
                  [path |-> segment_path, ss |-> chunk_start, t |-> current_duration])
           /\ segments' = Append(segments, [path |-> segment_path, chunk_start |-> chunk_start])
           /\ pc' = IF i + 1 = num_segments THEN "transcribe" ELSE "slice"
    /\ UNCHANGED <<total_duration, file_size, num_segments, segment_duration,
                   transcribe_vars, diar_vars, session_vars, raised, merged>>

\* Lines 97-104 raising: the temporary file exists, ffmpeg could not be run.
SliceChunkRaises ==
    /\ pc = "slice"
    /\ disk' = disk \cup {ChunkPath(Len(segments) + 1)}
    /\ pc' = "aborted"
    /\ raised' = "slice"
    /\ UNCHANGED <<chunk_vars, transcribe_vars, diar_vars, session_vars, merged>>

\* ------------------------------------------------------- transcribe_audio
\* Lines 126-129: s["start"] += chunk_start; s["end"] += chunk_start
OffsetSegments(segs, chunk_start) ==
    [j \in 1..Len(segs) |->
        [segs[j] EXCEPT !.start = FAdd(segs[j].start, chunk_start),
                        !.end = FAdd(segs[j].end, chunk_start)]]

\* Lines 111-115: one chunk; file_path itself is transcribed.
TranscribeSingle ==
    /\ pc = "transcribe"
    /\ Len(segments) = 1
    /\ \E result \in WhisperOutputs :
        /\ calls' = Append(calls, [path |-> UploadPath, result |-> result])
        /\ events' = Append(events, <<"transcribed", UploadPath>>)
        /\ returned' = [text |-> Strip(result.text), segments |-> result.segments]
    /\ pc' = "store"
    /\ UNCHANGED <<disk, chunk_vars, full_text, local_segments, diar_vars, session_vars,
                   raised, merged>>

\* Lines 120-134: one iteration of the loop; the last one returns.
TranscribeChunk ==
    /\ pc = "transcribe"
    /\ Len(segments) # 1
    /\ LET i == Len(calls) + 1
           seg == segments[i].path
           chunk_start == segments[i].chunk_start
       IN  \E result \in WhisperOutputs :
             LET text == full_text \o Strip(result.text) \o <<" ">>
                 all == local_segments \o OffsetSegments(result.segments, chunk_start)
             IN  /\ calls' = Append(calls, [path |-> seg, result |-> result])
                 /\ full_text' = text
                 /\ local_segments' = all
                 /\ IF seg # UploadPath
                    THEN /\ disk' = disk \ {seg}
                         /\ events' = events \o << <<"transcribed", seg>>, <<"removed", seg>> >>
                    ELSE /\ disk' = disk
                         /\ events' = Append(events, <<"transcribed", seg>>)
                 /\ IF i = Len(segments)
                    THEN /\ returned' = [text |-> Strip(text), segments |-> all]
                         /\ pc' = "store"
                    ELSE /\ returned' = returned
                         /\ pc' = "transcribe"
    /\ UNCHANGED <<chunk_vars, diar_vars, session_vars, raised, merged>>

\* Lines 113 and 122 raising: the exception leaves transcribe_audio and main.
TranscribeRaises ==
    /\ pc = "transcribe"
    /\ pc' = "aborted"
    /\ raised' = "transcribe"
    /\ UNCHANGED <<disk, chunk_vars, transcribe_vars, diar_vars, session_vars, merged>>

\* Lines 274-281: the results stored, the diarization switch read.
StoreTranscription ==
    /\ pc = "store"
    /\ transcription_text' = returned.text
    /\ transcription_segments' = returned.segments
    /\ final_transcript' = returned.text
    /\ transcription_done' = TRUE
    /\ \E enabled \in BOOLEAN :
        pc' = IF enabled THEN "from_pretrained" ELSE "remove_upload"
    /\ UNCHANGED <<disk, chunk_vars, transcribe_vars, diar_vars, diarization_results,
                   speaker_map, raised, merged>>

\* ------------------------------------------------------ main: diarization
\* Lines 299-303: one interval as the strings of the results table.
FormatInterval(d) ==
    [start_sec |-> Format2f(d.start), end_sec |-> Format2f(d.end), speaker |-> d.speaker]

FormatIntervals(ds) == [j \in 1..Len(ds) |-> FormatInterval(ds[j])]

\* Lines 306-307: the except clause; the run goes on at line 309.
DiarizationCaught(step) ==
    /\ raised' = step
    /\ pc' = "remove_upload"

\* Lines 284-294.
FromPretrained ==
    /\ pc = "from_pretrained"
    /\ pc' = "convert_to_wav"
    /\ UNCHANGED <<disk, chunk_vars, transcribe_vars, diar_vars, session_vars, raised, merged>>

FromPretrainedRaises ==
    /\ pc = "from_pretrained"
    /\ DiarizationCaught("from_pretrained")
    /\ UNCHANGED <<disk, chunk_vars, transcribe_vars, diar_vars, session_vars, merged>>

\* Lines 136-144 and 295.
ConvertToWav ==
    /\ pc = "convert_to_wav"
    /\ disk' = disk \cup {WavPath}
    /\ pc' = "pipeline"
    /\ UNCHANGED <<chunk_vars, transcribe_vars, diar_vars, session_vars, raised, merged>>

\* Lines 137-143 raising: the temporary file exists, ffmpeg could not be run.
ConvertToWavRaises ==
    /\ pc = "convert_to_wav"
    /\ disk' = disk \cup {WavPath}
    /\ DiarizationCaught("convert_to_wav")
    /\ UNCHANGED <<chunk_vars, transcribe_vars, diar_vars, session_vars, merged>>

\* Lines 296-297.
RunPipeline ==
    /\ pc = "pipeline"
    /\ \E out \in DiarOutputs : diarization' = out
    /\ diar_local' = <<>>
    /\ pc' = "itertracks"
    /\ UNCHANGED <<disk, chunk_vars, transcribe_vars, session_vars, raised, merged>>

RunPipelineRaises ==
    /\ pc = "pipeline"
    /\ DiarizationCaught("pipeline")
    /\ UNCHANGED <<disk, chunk_vars, transcribe_vars, diar_vars, session_vars, merged>>

\* Lines 298-305: the whole loop, the list stored, the WAV removed.
CollectIntervals ==
    /\ pc = "itertracks"
    /\ diar_local' = FormatIntervals(diarization)
    /\ diarization_results' = FormatIntervals(diarization)
    /\ disk' = disk \ {WavPath}
    /\ pc' = "remove_upload"
    /\ UNCHANGED <<chunk_vars, transcribe_vars, diarization, transcription_done,
                   transcription_text, transcription_segments, final_transcript,
                   speaker_map, raised, merged>>

\* How many intervals the loop may have appended when the iteration raises.
CollectedBeforeRaise == 0..(IF Len(diarization) = 0 THEN 0 ELSE Len(diarization) - 1)

\* Mutant of CollectIntervalsRaises: the intervals appended to the session
\* state's list as they come.
CollectIntervalsRaisesStored ==
    /\ pc = "itertracks"
    /\ \E k \in CollectedBeforeRaise :
        /\ diar_local' = FormatIntervals(SubSeq(diarization, 1, k))
        /\ diarization_results' = FormatIntervals(SubSeq(diarization, 1, k))
    /\ DiarizationCaught("itertracks")
    /\ UNCHANGED <<disk, chunk_vars, transcribe_vars, diarization, transcription_done,
                   transcription_text, transcription_segments, final_transcript,
                   speaker_map, merged>>

\* Lines 298-303 raising after k intervals: only the local list holds them.
CollectIntervalsRaises ==
    /\ pc = "itertracks"
    /\ \E k \in CollectedBeforeRaise :
        diar_local' = FormatIntervals(SubSeq(diarization, 1, k))
    /\ DiarizationCaught("itertracks")
    /\ UNCHANGED <<disk, chunk_vars, transcribe_vars, diarization, session_vars, merged>>

\* Lines 309-310.
RemoveUpload ==
    /\ pc = "remove_upload"
    /\ disk' = disk \ {UploadPath}
    /\ pc' = "display"
    /\ UNCHANGED <<chunk_vars, transcribe_vars, diar_vars, session_vars, raised, merged>>

\* --------------------------------------------------- main: display, rename
\* Lines 313-332: the transcript shown, and the segments as the call leaves them.
DisplayedTranscript ==
    IF diarization_results # <<>> /\ transcription_segments # <<>>
    THEN assign_speakers_to_transcription(transcription_segments, diarization_results)
    ELSE transcription_text

DisplayedSegments ==
    IF diarization_results # <<>> /\ transcription_segments # <<>>
    THEN AssignSpeakers(transcription_segments, diarization_results)
    ELSE transcription_segments

\* Lines 341-348 with the text inputs left as they are.
DefaultSpeakerMap ==
    LET speaker_labels == SpeakerLabels(diarization_results)
        shown == {speaker_labels[j] : j \in 1..Len(speaker_labels)}
    IN  IF shown = {} THEN speaker_map
        ELSE IF speaker_map = <<>> THEN [l \in shown |-> l]
        ELSE speaker_map

\* Lines 313-348 of the script run that made the transcription.
DisplayResults ==
    /\ pc = "display"
    /\ transcription_done
    /\ final_transcript' = DisplayedTranscript
    /\ transcription_segments' = DisplayedSegments
    /\ speaker_map' = DefaultSpeakerMap
    /\ pc' = "done"
    /\ UNCHANGED <<disk, chunk_vars, transcribe_vars, diar_vars, transcription_done,
                   transcription_text, diarization_results, raised, merged>>

Next ==
    \/ ClickTranscribe
    \/ LoadModel
    \/ LoadModelRaises
    \/ SegmentAudioBegin
    \/ ProbeRaises
    \/ SliceChunk
    \/ SliceChunkRaises
    \/ TranscribeSingle
    \/ TranscribeChunk
    \/ TranscribeRaises
    \/ StoreTranscription
    \/ FromPretrained
    \/ FromPretrainedRaises
    \/ ConvertToWav
    \/ ConvertToWavRaises
    \/ RunPipeline
    \/ RunPipelineRaises
    \/ CollectIntervals
    \/ CollectIntervalsRaises
    \/ RemoveUpload
    \/ DisplayResults

Spec == Init /\ [][Next]_vars

\* ------------------------------------------------------- claims: chunker
Abs(x) == IF x < 0 THEN 0 - x ELSE x

RECURSIVE SumDurations(_)
SumDurations(cmds) ==
    IF cmds = <<>> THEN 0 ELSE Head(cmds).t + SumDurations(Tail(cmds))

\* segment_audio has returned its list (the run may have gone on since).
SegmentAudioReturned ==
    /\ segments # <<>>
    /\ pc # "slice"
    /\ raised # "slice"

ExceedsABound ==
    total_duration > max_duration \/ file_size > max_file_size

\* C1 as stated: for an input exceeding either bound the chunks are an exact
\* contiguous partition: first offset 0, offsets strictly increasing,
\* offset[i+1] = offset[i] + duration[i], and the durations sum to the total.
C1_ExactPartition ==
    (SegmentAudioReturned /\ ExceedsABound) =>
        /\ Len(ffmpeg_cmds) = Len(segments)
        /\ segments[1].chunk_start = 0
        /\ \A i \in 1..(Len(segments) - 1) :
            /\ segments[i + 1].chunk_start > segments[i].chunk_start
            /\ segments[i + 1].chunk_start = segments[i].chunk_start + ffmpeg_cmds[i].t
        /\ SumDurations(ffmpeg_cmds) = total_duration

\* C1 amended: the same partition up to floating-point rounding: first offset
\* 0, offsets strictly increasing, offset[i+1] within one unit in the last
\* place of the total duration of offset[i] + duration[i], and the sum of the
\* durations within num_segments such units of the total duration.
C1_PartitionUpToRounding ==
    (SegmentAudioReturned /\ ExceedsABound) =>
        /\ Len(ffmpeg_cmds) = Len(segments)
        /\ Len(segments) = num_segments
        /\ segments[1].chunk_start = 0
        /\ \A i \in 1..Len(segments) :
            /\ ffmpeg_cmds[i].ss = segments[i].chunk_start
            /\ ffmpeg_cmds[i].path = segments[i].path
        /\ \A i \in 1..(Len(segments) - 1) :
            /\ segments[i + 1].chunk_start > segments[i].chunk_start
            /\ Abs(segments[i + 1].chunk_start
                   - (segments[i].chunk_start + ffmpeg_cmds[i].t)) <= Ulp(total_duration)
        /\ Abs(SumDurations(ffmpeg_cmds) - total_duration)
               <= num_segments * Ulp(total_duration)

\* C1 witness: a three-chunk plan whose durations do not sum to the total.
C1_Witness ==
    /\ SegmentAudioReturned
    /\ total_duration > max_duration
    /\ Len(segments) = 3
    /\ SumDurations(ffmpeg_cmds) # total_duration

\* C2: an input within both bounds (inclusive) yields exactly one chunk, at
\* offset 0, which is the original file; no slice is asked of ffmpeg and no
\* temporary chunk file exists.
C2_WholeFileSingleChunk ==
    (SegmentAudioReturned /\ total_duration <= max_duration /\ file_size <= max_file_size) =>
        /\ segments = <<[path |-> UploadPath, chunk_start |-> 0]>>
        /\ ffmpeg_cmds = <<>>
        /\ \A f \in disk : f[1] # "chunk"

\* C2 witness: both bounds met exactly.
C2_Witness ==
    /\ SegmentAudioReturned
    /\ total_duration = max_duration
    /\ file_size = max_file_size
    /\ segments = <<[path |-> UploadPath, chunk_start |-> 0]>>

\* C8: a zero-duration input is rejected for every file size: no chunk list
\* is returned and nothing is handed to the transcription model.
C8_ZeroDurationRejected ==
    total_duration = 0 =>
        /\ segments = <<>>
        /\ calls = <<>>
        /\ pc = "aborted"

\* ------------------------------------------------- claims: transcription
TranscribeAudioReturned == pc = "store"

RunEnded == pc \in {"done", "aborted"}

\* The position of the first event e in the log, 0 when it never happened.
FirstIndex(e) ==
    IF \E j \in 1..Len(events) : events[j] = e
    THEN CHOOSE j \in 1..Len(events) :
             events[j] = e /\ \A h \in 1..(j - 1) : events[h] # e
    ELSE 0

\* C5: when transcribe_audio returns, every temporary file made for a chunk
\* has been deleted, after the transcription of its own chunk completed, and
\* the original input file is still there.
C5_ChunkFilesDeleted ==
    TranscribeAudioReturned =>
        /\ \A i \in 1..Len(segments) :
            segments[i].path # UploadPath =>
                /\ segments[i].path \notin disk
                /\ FirstIndex(<<"transcribed", segments[i].path>>) > 0
                /\ FirstIndex(<<"transcribed", segments[i].path>>)
                       < FirstIndex(<<"removed", segments[i].path>>)
        /\ UploadPath \in disk

\* C6: on every exit path of a run no temporary audio file remains on disk.
C6_NoTempFileLeft ==
    RunEnded => disk = {}

\* The segments of every call, each list moved by its chunk's start offset,
\* in the order of the plan.
RECURSIVE ExpectedSegments(_)
ExpectedSegments(n) ==
    IF n = 0 THEN <<>>
    ELSE ExpectedSegments(n - 1)
             \o [j \in 1..Len(calls[n].result.segments) |->
                    [calls[n].result.segments[j] EXCEPT
                        !.start = FAdd(calls[n].result.segments[j].start, segments[n].chunk_start),
                        !.end = FAdd(calls[n].result.segments[j].end, segments[n].chunk_start)]]

\* C10: in a completed run the model is invoked once per chunk of the plan,
\* on that chunk's own audio, in the order of increasing start offset, and the
\* accumulated list holds chunk i's segments, moved by chunk i's start offset,
\* before those of chunk i+1.
C10_OneCallPerChunkInOrder ==
    TranscribeAudioReturned =>
        /\ Len(calls) = Len(segments)
        /\ \A i \in 1..Len(segments) : calls[i].path = segments[i].path
        /\ \A i \in 1..(Len(segments) - 1) :
            segments[i].chunk_start < segments[i + 1].chunk_start
        /\ returned.segments = ExpectedSegments(Len(segments))

\* ------------------------------------------------------------ claims: run
DiarizationSteps == {"from_pretrained", "convert_to_wav", "pipeline", "itertracks"}

TranscriptionSteps == {"load_model", "probe", "segment_duration", "slice", "transcribe"}

\* C7: a diarization failure after a successful transcription is caught: the
\* run ends with transcription_done true, no stored diarization results and
\* the plain transcription text as final transcript; a transcription failure
\* ends the run with transcription_done false.
C7_DiarizationFailureNotFatal ==
    /\ (pc \in {"remove_upload", "display", "done"} /\ raised \in DiarizationSteps) =>
        /\ transcription_done
        /\ diarization_results = <<>>
        /\ transcription_text = returned.text
        /\ final_transcript = returned.text
    /\ raised \in DiarizationSteps => pc \in {"remove_upload", "display", "done"}
    /\ raised \in TranscriptionSteps => (pc = "aborted" /\ ~transcription_done)

\* C7 witness: the iteration raised after an interval had been collected and
\* the run has ended.
C7_Witness ==
    /\ pc = "done"
    /\ raised = "itertracks"
    /\ diar_local # <<>>
    /\ returned.text # <<>>

\* ----------------------------- assign_speakers_to_transcription, called alone
\* Segment and interval times of the inputs, in hundredths of a second.
AssignSegTimes == {<<0, 2>>, <<2, 4>>}

IntervalTimes == {<<0, 1>>, <<1, 3>>, <<3, 4>>, <<0, 4>>}

MergeTexts == {<<>>, <<" ", "a">>, <<"b", " ">>}

Segment(start_cs, end_cs, text) ==
    [start |-> ParseFloat(start_cs), end |-> ParseFloat(end_cs),
     text |-> text, speaker |-> NoKey]

SeqsUpTo(S, n) == UNION {[1..m -> S] : m \in 0..n}

\* Segments at any of the times, intervals at any of the times, overlapping or not.
AssignInputs ==
    {<<segs, results>> :
        segs \in SeqsUpTo({Segment(t[1], t[2], <<"a">>) : t \in AssignSegTimes}, MaxAssignSegs),
        results \in SeqsUpTo({[start_sec |-> t[1], end_sec |-> t[2], speaker |-> l] :
                                  t \in IntervalTimes, l \in Labels}, MaxIntervals)}

\* Segment k spans [2(k-1), 2k] hundredths; who[k] is the speaker of an interval
\* over the same span, or None for a span no interval covers.
SlotIntervals(who) ==
    LET all == [k \in 1..Len(who) |->
                   [start_sec |-> 2 * (k - 1), end_sec |-> 2 * k, speaker |-> who[k]]]
    IN  SelectSeq(all, LAMBDA d : d.speaker # None)

MergeInputsOf(m) ==
    {<<[k \in 1..m |-> Segment(2 * (k - 1), 2 * k, texts[k])], SlotIntervals(who)>> :
        texts \in [1..m -> MergeTexts], who \in [1..m -> Labels \cup {None}]}

MergeInputs == UNION {MergeInputsOf(m) : m \in 0..MaxMergeSegs}

InitMerger ==
    /\ pc = "call"
    /\ NoRun
    /\ transcription_done = TRUE
    /\ transcription_text = <<>>
    /\ final_transcript = <<>>
    /\ speaker_map = <<>>
    /\ \E in \in AssignInputs \cup MergeInputs :
        /\ transcription_segments = in[1]
        /\ diarization_results = in[2]

\* Lines 146-175: the call; the segments are changed in place.
CallAssignSpeakers ==
    /\ pc = "call"
    /\ merged' = assign_speakers_to_transcription(transcription_segments, diarization_results)
    /\ transcription_segments' =
           IF transcription_segments = <<>> THEN transcription_segments
           ELSE AssignSpeakers(transcription_segments, diarization_results)
    /\ pc' = "returned"
    /\ UNCHANGED <<disk, chunk_vars, transcribe_vars, diar_vars, transcription_done,
                   transcription_text, diarization_results, final_transcript,
                   speaker_map, raised>>

NextMerger == CallAssignSpeakers

SpecMerger == InitMerger /\ [][NextMerger]_vars

\* -------------------------------------------------------- claims: merger
NumSegs == Len(transcription_segments)

SegSpeaker(i) == transcription_segments[i].speaker

RunStart(i) == i = 1 \/ SegSpeaker(i) # SegSpeaker(i - 1)

\* The last segment of the maximal run that starts at i.
RunEnd(i) ==
    CHOOSE j \in i..NumSegs :
        /\ \A h \in i..j : SegSpeaker(h) = SegSpeaker(i)
        /\ j = NumSegs \/ SegSpeaker(j + 1) # SegSpeaker(i)

RunTexts(i) ==
    [h \in 1..(RunEnd(i) - i + 1) |-> Strip(transcription_segments[i + h - 1].text)]

RunStarts == SelectSeq([i \in 1..NumSegs |-> i], LAMBDA i : RunStart(i))

\* "<speaker_label>: <the run's trimmed texts joined with single spaces>"
ParagraphJoined(i) ==
    SegSpeaker(i) \o <<":", " ">> \o Join(RunTexts(i), <<" ">>)

\* The same with the joined text trimmed as a whole.
ParagraphJoinedTrimmed(i) ==
    SegSpeaker(i) \o <<":", " ">> \o Strip(Join(RunTexts(i), <<" ">>))

\* C3 as stated: one paragraph per maximal run of segments with the same
\* speaker, in input order, each "<speaker>: <trimmed texts joined with single
\* spaces>", the paragraphs joined by a blank line; the empty text for no segments.
C3_ParagraphPerRun ==
    pc = "returned" =>
        merged = Join([k \in 1..Len(RunStarts) |-> ParagraphJoined(RunStarts[k])],
                      <<"\n", "\n">>)

\* C3 amended: as stated, except that the joined text of a paragraph is
\* itself trimmed, so a segment whose trimmed text is empty leaves no space
\* at the start or the end of its paragraph.
C3_ParagraphPerRunTrimmed ==
    pc = "returned" =>
        /\ merged = Join([k \in 1..Len(RunStarts) |-> ParagraphJoinedTrimmed(RunStarts[k])],
                         <<"\n", "\n">>)
        /\ NumSegs = 0 => merged = <<>>

\* C3 witness: three segments in two paragraphs, the first run of two
\* segments beginning with a segment whose trimmed text is empty.
C3_Witness ==
    /\ pc = "returned"
    /\ NumSegs = 3
    /\ SegSpeaker(1) = SegSpeaker(2)
    /\ SegSpeaker(2) # SegSpeaker(3)
    /\ Strip(transcription_segments[1].text) = <<>>
    /\ Strip(transcription_segments[2].text) # <<>>

\* The intervals, by position, whose closed range holds segment i's midpoint.
Containing(i) ==
    LET mid2 == FAdd(transcription_segments[i].start, transcription_segments[i].end)
    IN  {j \in 1..Len(diarization_results) :
            /\ 2 * ParseFloat(diarization_results[j].start_sec) <= mid2
            /\ mid2 <= 2 * ParseFloat(diarization_results[j].end_sec)}

Least(S) == CHOOSE j \in S : \A h \in S : j <= h

\* C4: every segment gets the speaker of the first interval, in the order
\* given, whose closed range holds its midpoint, and "Unknown" exactly when
\* no interval does.
C4_FirstMatchWins ==
    pc = "returned" =>
        \A i \in 1..NumSegs :
            /\ Containing(i) # {} =>
                   SegSpeaker(i) = diarization_results[Least(Containing(i))].speaker
            /\ SegSpeaker(i) = Unknown <=> Containing(i) = {}

\* C4 witness: a midpoint that two intervals with different speakers hold, one
\* of them ending exactly at it, and another segment that no interval holds.
C4_Witness ==
    /\ pc = "returned"
    /\ NumSegs = 2
    /\ Cardinality(Containing(1)) = 2
    /\ diarization_results[1].speaker # diarization_results[2].speaker
    /\ \E j \in Containing(1) :
           2 * ParseFloat(diarization_results[j].end_sec)
               = FAdd(transcription_segments[1].start, transcription_segments[1].end)
    /\ Containing(2) = {}
    /\ SegSpeaker(2) = Unknown

\* ------------------------------------------------- main: the rename button
\* What the user may type into a label's text input.
Names == {<<"A">>, <<"B">>, <<"C">>, <<"C", "B">>}

RenameTexts == {<<"x">>, <<"B", ":", "y">>}

RenameInputsOf(m) ==
    {<<[k \in 1..m |-> Segment(2 * (k - 1), 2 * k, texts[k])], SlotIntervals(who)>> :
        texts \in [1..m -> RenameTexts], who \in [1..m -> Labels \cup {None}]}

\* The last input: intervals, but a transcription without segments.
RenameInputs ==
    UNION {RenameInputsOf(m) : m \in 0..MaxRenameSegs}
        \cup {<< <<>>, <<[start_sec |-> 0, end_sec |-> 2, speaker |-> <<"A">>]>> >>}

\* The session state at line 313 of a run that transcribed and diarized.
InitRename ==
    /\ pc = "display"
    /\ NoRun
    /\ transcription_done = TRUE
    /\ transcription_text = <<"x">>
    /\ final_transcript = <<"x">>
    /\ speaker_map = <<>>
    /\ \E in \in RenameInputs :
        /\ transcription_segments = in[1]
        /\ diarization_results = in[2]

\* The script run the rename button starts: lines 313-332 set the transcript
\* anew, lines 345-348 read the text inputs, lines 350-355 rename.
ApplyRename ==
    /\ pc \in {"done", "renamed"}
    /\ transcription_done
    /\ LET speaker_labels == SpeakerLabels(diarization_results)
       IN  /\ speaker_labels # <<>>
           /\ \E typed \in [{speaker_labels[j] : j \in 1..Len(speaker_labels)} -> Names] :
               /\ speaker_map' = typed
               /\ final_transcript' = RenameLoop(DisplayedTranscript, speaker_labels, typed)
    /\ transcription_segments' = DisplayedSegments
    /\ pc' = "renamed"
    /\ UNCHANGED <<disk, chunk_vars, transcribe_vars, diar_vars, transcription_done,
                   transcription_text, diarization_results, raised, merged>>

NextRename ==
    \/ DisplayResults
    \/ ApplyRename

SpecRename == InitRename /\ [][NextRename]_vars

\* -------------------------------------------------------- claims: rename
\* text.split("\n\n")
RECURSIVE SplitParagraphs(_, _)
SplitParagraphs(s, acc) ==
    IF s = <<>> THEN <<acc>>
    ELSE IF IsPrefix(<<"\n", "\n">>, s)
         THEN <<acc>> \o SplitParagraphs(SubSeq(s, 3, Len(s)), <<>>)
         ELSE SplitParagraphs(Tail(s), Append(acc, Head(s)))

\* What stands before a paragraph's first colon; None without a colon.
RECURSIVE LabelBefore(_, _)
LabelBefore(s, acc) ==
    IF s = <<>> THEN None
    ELSE IF Head(s) = ":" THEN acc
    ELSE LabelBefore(Tail(s), Append(acc, Head(s)))

ShownParagraphs == SplitParagraphs(DisplayedTranscript, <<>>)

RenamedParagraphs == SplitParagraphs(final_transcript, <<>>)

RenameLabels == SpeakerLabels(diarization_results)

\* Every paragraph that was labelled with a diarization label carries the
\* name the mapping gives for that label.
ParagraphsCarryMappedLabels ==
    /\ Len(RenamedParagraphs) = Len(ShownParagraphs)
    /\ \A k \in 1..Len(ShownParagraphs) :
        LabelBefore(ShownParagraphs[k], <<>>) \in DOMAIN speaker_map =>
            LabelBefore(RenamedParagraphs[k], <<>>)
                = speaker_map[LabelBefore(ShownParagraphs[k], <<>>)]

IdentityUnchanged ==
    (\A l \in DOMAIN speaker_map : speaker_map[l] = l) =>
        final_transcript = DisplayedTranscript

AgainUnchanged ==
    (\A l \in DOMAIN speaker_map : ~Occurs(l \o <<":">>, final_transcript)) =>
        RenameLoop(final_transcript, RenameLabels, speaker_map) = final_transcript

\* No new name, with its colon, holds a label that is renamed after it to
\* something else.
NoNameRenamedLater ==
    \A i \in 1..Len(RenameLabels) : \A j \in (i + 1)..Len(RenameLabels) :
        speaker_map[RenameLabels[j]] # RenameLabels[j] =>
            ~Occurs(RenameLabels[j] \o <<":">>, speaker_map[RenameLabels[i]] \o <<":">>)

\* C9 as stated: after the rename every paragraph that was labelled old
\* carries the label the mapping gives for old; the identity mapping leaves
\* the text unchanged; applying the mapping again changes nothing once no old
\* label occurs in the text.
C9_RenameMapsEveryLabel ==
    pc = "renamed" =>
        /\ ParagraphsCarryMappedLabels
        /\ IdentityUnchanged
        /\ AgainUnchanged

\* C9 amended: the labels are replaced one after the other, in sorted order,
\* each in the text the previous replacement left; every paragraph carries
\* the name the mapping gives for its label provided that no new name (with
\* its colon) holds a label that is renamed later to something else.
C9_RenameMapsLabelsUnlessChained ==
    pc = "renamed" =>
        /\ NoNameRenamedLater => ParagraphsCarryMappedLabels
        /\ IdentityUnchanged
        /\ AgainUnchanged

\* C9 witness: two paragraphs of one label and one of the other, both labels
\* renamed to new names, and the text changed.
C9_Witness ==
    /\ pc = "renamed"
    /\ Len(ShownParagraphs) = 3
    /\ LabelBefore(ShownParagraphs[1], <<>>) = <<"A">>
    /\ LabelBefore(ShownParagraphs[2], <<>>) = <<"B">>
    /\ LabelBefore(ShownParagraphs[3], <<>>) = <<"A">>
    /\ speaker_map[<<"A">>] = <<"C", "B">>
    /\ speaker_map[<<"B">>] = <<"B">>
    /\ NoNameRenamedLater
    /\ LabelBefore(RenamedParagraphs[3], <<>>) = <<"C", "B">>

====
